---- MODULE Spec2Model ----
(***************************************************************************)
(* Bootstrap of the vault operator (operator/cmd/manager/main.go).         *)
(*                                                                         *)
(* NumProcs replicas of the operator run main() against one cluster.  The  *)
(* replicas come from one pod template, so they see the same command line  *)
(* and environment (osEnv).  The cluster holds the leader-election lock records            *)
(* (configMaps) and the metrics Service objects (services).  Every other   *)
(* variable is per process.                                                *)
(***************************************************************************)
EXTENDS Integers, Sequences, FiniteSets, TLC

\* ------------------------------------------------------------------ bounds
NumProcs == 2
Procs == 1..NumProcs

\* --------------------------------------------------------- program constants
operatorNamespace == "OPERATOR_NAMESPACE"
LockName == "vault-operator-lock"

\* URL paths and ServeMux patterns are sequences of path segments; a pattern
\* that ends in "/" (dir) names the whole subtree below it.
RootPattern == [segs |-> << >>, dir |-> TRUE]           \* "/"
ReadyPattern == [segs |-> <<"ready">>, dir |-> FALSE]   \* "/ready"
RootPath == << >>
ReadyPath == <<"ready">>

\* ---------------------------------------------------------------- inputs
\* os.LookupEnv(OPERATOR_NAMESPACE): (value, isSet); value is "" when unset.
EnvValues ==
    { [isSet |-> FALSE, value |-> ""],
      [isSet |-> TRUE, value |-> ""],
      [isSet |-> TRUE, value |-> "team-a"] }

\* k8sutil.GetWatchNamespace(): (namespace, err); namespace is "" on error.
DiscoveryResults ==
    { [err |-> TRUE, ns |-> ""],
      [err |-> FALSE, ns |-> "ops-ns"] }

\* The command line, by what flag.Parse makes of it: every flag defined and
\* parsable, a flag undefined or unparsable (-sync_period=abc), or -h.
CommandLines == {"valid", "rejected", "help"}

\* Exit statuses of flag.Parse (flag.CommandLine is ExitOnError): 2 on a
\* rejected command line; on -h, 2 or 0 according to the Go release that built
\* the binary.
FlagErrorStatus == 2
FlagHelpStatuses == {0, 2}

\* The termination signal the platform sends to stop a pod (SIGTERM; SIGINT is
\* handled the same way); a process it ends has the status 128 + signal.
TermSignals == {15}
SignalStatus(sig) == 128 + sig

VARIABLES
    osEnv,        \* [argv: CommandLines, lookup: EnvValues,
                  \*  discovery: DiscoveryResults]
    configMaps,   \* lock records in the cluster: [name, owner]
    services,     \* number of metrics Service objects in the cluster
    pc,           \* pc[p]: position of main() in process p
    exitCode,     \* exitCode[p]: -1 while the process lives, else its status
    namespace,    \* namespace[p]: the local variable `namespace`
    consulted,    \* consulted[p]: GetWatchNamespace was called
    trace,        \* trace[p]: the calls main() made, with their results
    log,          \* log[p]: the notices and errors logged so far (the version
                  \* banner and the progress lines are left out)
    probe,        \* probe[p]: position of the handleLiveness goroutine
    mux,          \* mux[p]: patterns registered on http.DefaultServeMux
    stopClosed    \* stopClosed[p]: the signal handler closed the stop channel

vars == <<osEnv, configMaps, services, pc, exitCode, namespace, consulted,
          trace, log, probe, mux, stopClosed>>

Entry(fn, res) == [fn |-> fn, res |-> res]

Result(err) == IF err THEN "err" ELSE "ok"

\* The last entry of a trace with its result replaced (a blocking call returns).
Returned(t, res) == [t EXCEPT ![Len(t)] = Entry(t[Len(t)].fn, res)]

IsPrefix(s, t) == Len(s) <= Len(t) /\ SubSeq(t, 1, Len(s)) = s

\* ------------------------------------------------------------ http.ServeMux
\* A pattern matches a path exactly, or as a prefix when it names a subtree.
Matches(pat, path) ==
    IF pat.dir THEN IsPrefix(pat.segs, path) ELSE pat.segs = path

\* The registered patterns that can serve a path; ServeMux answers 404 only
\* when there is none.
MatchingPatterns(m, path) == {pat \in m : Matches(pat, path)}

\* Status of an HTTP GET of `path` on the liveness port of process p:
\* 0 when nothing listens, 404 when no pattern matches, else 200 (both handlers
\* only log, so the default status is written).
ServeHTTP(p, path) ==
    IF probe[p] # "serving" THEN 0
    ELSE IF MatchingPatterns(mux[p], path) = {} THEN 404
    ELSE 200

\* ---------------------------------------------------------- leader lock
\* leader.Become creates the lock record and blocks while a record of that
\* name exists; the record goes away with its owner.
LockFree(name) == \A cm \in configMaps : cm.name # name

LockRecord(name, p) == [name |-> name, owner |-> p]

ReleasedLocks(p) == {cm \in configMaps : cm.owner # p}

\* The lock name main() passes to leader.Become.
BecomeLockNamePerProcess(p) == <<LockName, p>>
BecomeLockName(p) == LockName

\* The context main() passes to leader.Become: context.TODO() has no deadline
\* and is never cancelled.
BecomeContextWithTimeout == "WithTimeout"
BecomeContext == "TODO"

\* The errors leader.Become returns: the acquisition error (the cluster cannot
\* be reached), at any time; and the error of its context, while the call
\* waits behind the holder of the lock, when that context can end.
AcquisitionError == "acquisition error"
DeadlineExceeded == "context deadline exceeded"
BecomeErrors(held) ==
    {AcquisitionError} \cup
        (IF held /\ BecomeContext # "TODO" THEN {DeadlineExceeded} ELSE {})

\* --------------------------------------------------------------- helpers
\* The process ends (os.Exit, or main returns): its goroutines, its mux and
\* its lock record go with it.
Exit(p, code) ==
    /\ pc' = [pc EXCEPT ![p] = "exited"]
    /\ exitCode' = [exitCode EXCEPT ![p] = code]
    /\ probe' = [probe EXCEPT ![p] = "stopped"]
    /\ mux' = [mux EXCEPT ![p] = {}]
    /\ stopClosed' = [stopClosed EXCEPT ![p] = FALSE]
    /\ configMaps' = ReleasedLocks(p)

\* main() goes on to its next statement.
Goto(p, next) ==
    /\ pc' = [pc EXCEPT ![p] = next]
    /\ UNCHANGED <<exitCode, stopClosed>>

LogError(p, msg) == log' = [log EXCEPT ![p] = @ \cup {msg}]

\* ------------------------------------------------------------------ Init
Init ==
    /\ osEnv \in [argv : CommandLines, lookup : EnvValues, discovery : DiscoveryResults]
    /\ configMaps = {}
    /\ services = 0
    /\ pc = [p \in Procs |-> "flagParse"]
    /\ exitCode = [p \in Procs |-> -1]
    /\ namespace = [p \in Procs |-> ""]
    /\ consulted = [p \in Procs |-> FALSE]
    /\ trace = [p \in Procs |-> << >>]
    /\ log = [p \in Procs |-> {}]
    /\ probe = [p \in Procs |-> "notStarted"]
    /\ mux = [p \in Procs |-> {}]
    /\ stopClosed = [p \in Procs |-> FALSE]

\* The pod template sets no override and discovery succeeds; the command line
\* is left open.  Nothing after line 93 reads the namespace but manager.New,
\* which takes it as an option, so every specification but Spec, under which
\* the namespace resolution is checked, starts from this environment.
InitDiscovered ==
    /\ Init
    /\ osEnv.lookup = [isSet |-> FALSE, value |-> ""]
    /\ osEnv.discovery = [err |-> FALSE, ns |-> "ops-ns"]

\* ------------------------------------------------------------ flag.Parse
\* Lines 69-72: flag.Parse returns on a valid command line; otherwise it prints
\* the usage and ends the process before anything else has run.
FlagParse(p) ==
    /\ pc[p] = "flagParse"
    /\ CASE osEnv.argv = "valid" ->
              /\ Goto(p, "resolveNamespace")
              /\ UNCHANGED <<probe, mux, configMaps>>
         [] osEnv.argv = "rejected" -> Exit(p, FlagErrorStatus)
         [] osEnv.argv = "help" -> \E code \in FlagHelpStatuses : Exit(p, code)
    /\ UNCHANGED <<osEnv, services, namespace, consulted, trace, log>>

\* ------------------------------------------------- namespace resolution
\* `isSet` of os.LookupEnv, as main() tests it.
OverrideNonEmpty(lookup) == lookup.isSet /\ lookup.value # ""
OverrideIsSet(lookup) == lookup.isSet

\* Lines 82-93 as a function of the environment: the namespace, whether
\* discovery was called, and whether the fallback notice was logged.
WatchedNamespace(lookup, disc) ==
    IF ~OverrideIsSet(lookup)
    THEN IF disc.err
         THEN [namespace |-> "", consulted |-> TRUE, fallback |-> TRUE]
         ELSE [namespace |-> disc.ns, consulted |-> TRUE, fallback |-> FALSE]
    ELSE [namespace |-> lookup.value, consulted |-> FALSE, fallback |-> FALSE]

FallbackNotice == "No watched namespace found, watching the entire cluster"

WatchedNotice(ns) == "Watched namespace: " \o ns

ResolveNamespaceFatal(p) ==
    /\ pc[p] = "resolveNamespace"
    /\ LET r == WatchedNamespace(osEnv.lookup, osEnv.discovery) IN
        /\ consulted' = [consulted EXCEPT ![p] = r.consulted]
        /\ IF r.fallback
           THEN /\ namespace' = [namespace EXCEPT ![p] = ""]
                /\ LogError(p, "error")
                /\ Exit(p, 1)
           ELSE /\ namespace' = [namespace EXCEPT ![p] = r.namespace]
                /\ log' = [log EXCEPT ![p] = @ \cup {WatchedNotice(r.namespace)}]
                /\ Goto(p, "getConfig")
                /\ UNCHANGED <<probe, mux, configMaps>>
    /\ UNCHANGED <<osEnv, services, trace>>

ResolveNamespace(p) ==
    /\ pc[p] = "resolveNamespace"
    /\ LET r == WatchedNamespace(osEnv.lookup, osEnv.discovery) IN
        /\ namespace' = [namespace EXCEPT ![p] = r.namespace]
        /\ consulted' = [consulted EXCEPT ![p] = r.consulted]
        /\ log' = [log EXCEPT ![p] =
                     @ \cup (IF r.fallback THEN {FallbackNotice} ELSE {})
                       \cup {WatchedNotice(r.namespace)}]
    /\ Goto(p, "getConfig")
    /\ UNCHANGED <<osEnv, configMaps, services, trace, probe, mux>>

\* ------------------------------------------------------- fail-fast calls
\* A call that returns at once: on an error main() logs it and exits with
\* status 1, otherwise it logs `msgs` and goes on to `next`.
CallOrExit(p, fn, err, msgs, next) ==
    /\ trace' = [trace EXCEPT ![p] = Append(@, Entry(fn, Result(err)))]
    /\ IF err
       THEN LogError(p, "error") /\ Exit(p, 1)
       ELSE /\ log' = [log EXCEPT ![p] = @ \cup msgs]
            /\ Goto(p, next)
            /\ UNCHANGED <<probe, mux, configMaps>>

\* The same call with the `if err != nil` branch left out.
CallIgnoringError(p, fn, err, msgs, next) ==
    /\ trace' = [trace EXCEPT ![p] = Append(@, Entry(fn, Result(err)))]
    /\ log' = [log EXCEPT ![p] = @ \cup msgs]
    /\ Goto(p, next)
    /\ UNCHANGED <<probe, mux, configMaps>>

\* ------------------------------------------------------- config.GetConfig
GetConfigNoExit(p) ==
    /\ pc[p] = "getConfig"
    /\ \E err \in BOOLEAN :
        CallIgnoringError(p, "config.GetConfig", err, {}, "goHandleLiveness")
    /\ UNCHANGED <<osEnv, services, namespace, consulted>>

\* Lines 95-100
GetConfig(p) ==
    /\ pc[p] = "getConfig"
    /\ \E err \in BOOLEAN : CallOrExit(p, "config.GetConfig", err, {}, "goHandleLiveness")
    /\ UNCHANGED <<osEnv, services, namespace, consulted>>

\* ------------------------------------------------------- handleLiveness
\* Line 103: the goroutine is spawned; main() goes on at once.
GoHandleLiveness(p) ==
    /\ pc[p] = "goHandleLiveness"
    /\ probe' = [probe EXCEPT ![p] = "spawned"]
    /\ Goto(p, "become")
    /\ UNCHANGED <<osEnv, configMaps, services, namespace, consulted, trace, log, mux>>

\* Lines 57-60: the goroutine registers the "/" handler.
LivenessRegister(p) ==
    /\ probe[p] = "spawned"
    /\ probe' = [probe EXCEPT ![p] = "registered"]
    /\ mux' = [mux EXCEPT ![p] = @ \cup {RootPattern}]
    /\ UNCHANGED <<osEnv, configMaps, services, pc, exitCode, namespace, consulted,
                   trace, log, stopClosed>>

\* The listener waits for leadership before it binds.
LivenessListenAsLeader(p) ==
    /\ probe[p] = "registered"
    /\ \E i \in 1..Len(trace[p]) : trace[p][i] = Entry("leader.Become", "ok")
    /\ \E err \in BOOLEAN :
        IF err
        THEN /\ probe' = [probe EXCEPT ![p] = "bindFailed"]
             /\ LogError(p, "failed to start health probe: %v\n")
        ELSE /\ probe' = [probe EXCEPT ![p] = "serving"]
             /\ UNCHANGED log
    /\ UNCHANGED <<osEnv, configMaps, services, pc, exitCode, namespace, consulted,
                   trace, mux, stopClosed>>

\* The bind error is treated like every other bootstrap error: exit with 1.
LivenessListenFatal(p) ==
    /\ probe[p] = "registered"
    /\ \E err \in BOOLEAN :
        IF err
        THEN /\ LogError(p, "failed to start health probe: %v\n")
             /\ Exit(p, 1)
        ELSE /\ probe' = [probe EXCEPT ![p] = "serving"]
             /\ UNCHANGED <<log, pc, exitCode, mux, stopClosed, configMaps>>
    /\ UNCHANGED <<osEnv, services, namespace, consulted, trace>>

\* Lines 61-64: http.ListenAndServe binds and serves, or returns the bind
\* error, which is logged before the goroutine ends.
LivenessListen(p) ==
    /\ probe[p] = "registered"
    /\ \E err \in BOOLEAN :
        IF err
        THEN /\ probe' = [probe EXCEPT ![p] = "bindFailed"]
             /\ LogError(p, "failed to start health probe: %v\n")
        ELSE /\ probe' = [probe EXCEPT ![p] = "serving"]
             /\ UNCHANGED log
    /\ UNCHANGED <<osEnv, configMaps, services, pc, exitCode, namespace, consulted,
                   trace, mux, stopClosed>>

handleLiveness(p) == LivenessRegister(p) \/ LivenessListen(p)

\* --------------------------------------------------------- leader.Become
\* Line 106: main() calls leader.Become and blocks in it.
LeaderBecomeCall(p) ==
    /\ pc[p] = "become"
    /\ trace' = [trace EXCEPT ![p] = Append(@, Entry("leader.Become", "pending"))]
    /\ Goto(p, "becomeBlocked")
    /\ UNCHANGED <<osEnv, configMaps, services, namespace, consulted, log, probe, mux>>

\* leader.Become's error is dropped: main() goes on without the lock.
LeaderBecomeReturnNoExit(p) ==
    /\ pc[p] = "becomeBlocked"
    /\ \E err \in BOOLEAN :
        /\ trace' = [trace EXCEPT ![p] = Returned(@, Result(err))]
        /\ IF err
           THEN UNCHANGED configMaps
           ELSE /\ LockFree(BecomeLockName(p))
                /\ configMaps' = configMaps \cup {LockRecord(BecomeLockName(p), p)}
        /\ Goto(p, "handleReady")
    /\ UNCHANGED <<osEnv, services, namespace, consulted, log, probe, mux>>

\* Lines 106-110: leader.Become returns nil once this process owns the lock
\* record, or an error; main() logs the error and exits.
LeaderBecomeReturn(p) ==
    /\ pc[p] = "becomeBlocked"
    /\ \/ /\ LockFree(BecomeLockName(p))
          /\ trace' = [trace EXCEPT ![p] = Returned(@, "ok")]
          /\ configMaps' = configMaps \cup {LockRecord(BecomeLockName(p), p)}
          /\ Goto(p, "handleReady")
          /\ UNCHANGED <<log, probe, mux>>
       \/ \E e \in BecomeErrors(~LockFree(BecomeLockName(p))) :
             /\ trace' = [trace EXCEPT ![p] = Returned(@, "err")]
             /\ LogError(p, e)
             /\ Exit(p, 1)
    /\ UNCHANGED <<osEnv, services, namespace, consulted>>

\* The "/ready" handler is not registered at this point.
HandleReadyOmitted(p) ==
    /\ pc[p] = "handleReady"
    /\ Goto(p, "managerNew")
    /\ UNCHANGED <<osEnv, configMaps, services, namespace, consulted, trace, log, probe, mux>>

\* main() waits for the probe listener before it goes on.
HandleReadyOnceBound(p) ==
    /\ pc[p] = "handleReady"
    /\ probe[p] = "serving"
    /\ mux' = [mux EXCEPT ![p] = @ \cup {ReadyPattern}]
    /\ Goto(p, "managerNew")
    /\ UNCHANGED <<osEnv, configMaps, services, namespace, consulted, trace, log, probe>>

\* Lines 112-114: the "/ready" handler is registered.
HandleReady(p) ==
    /\ pc[p] = "handleReady"
    /\ mux' = [mux EXCEPT ![p] = @ \cup {ReadyPattern}]
    /\ Goto(p, "managerNew")
    /\ UNCHANGED <<osEnv, configMaps, services, namespace, consulted, trace, log, probe>>

\* ------------------------------------------------------ manager lifecycle
\* Lines 116-127
ManagerNew(p) ==
    /\ pc[p] = "managerNew"
    /\ \E err \in BOOLEAN :
        CallOrExit(p, "manager.New", err, {}, "addToScheme")
    /\ UNCHANGED <<osEnv, services, namespace, consulted>>

\* Lines 129-133
AddToSchemeNoExit(p) ==
    /\ pc[p] = "addToScheme"
    /\ \E err \in BOOLEAN : CallIgnoringError(p, "apis.AddToScheme", err, {}, "addToManager")
    /\ UNCHANGED <<osEnv, services, namespace, consulted>>

AddToScheme(p) ==
    /\ pc[p] = "addToScheme"
    /\ \E err \in BOOLEAN : CallOrExit(p, "apis.AddToScheme", err, {}, "addToManager")
    /\ UNCHANGED <<osEnv, services, namespace, consulted>>

\* Lines 135-139
AddToManagerNoExit(p) ==
    /\ pc[p] = "addToManager"
    /\ \E err \in BOOLEAN :
        CallIgnoringError(p, "controller.AddToManager", err, {}, "createMetricsService")
    /\ UNCHANGED <<osEnv, services, namespace, consulted>>

AddToManager(p) ==
    /\ pc[p] = "addToManager"
    /\ \E err \in BOOLEAN :
        CallOrExit(p, "controller.AddToManager", err, {}, "createMetricsService")
    /\ UNCHANGED <<osEnv, services, namespace, consulted>>

CreateMetricsServiceNoExit(p) ==
    /\ pc[p] = "createMetricsService"
    /\ \E err \in BOOLEAN :
        /\ CallIgnoringError(p, "metrics.CreateMetricsService", err, {}, "mgrStart")
        /\ services' = services
    /\ UNCHANGED <<osEnv, namespace, consulted>>

\* metrics.CreateMetricsService creates the Service object, or updates the
\* one that exists.
PublishedServices(n) == IF n = 0 THEN 1 ELSE n

\* Lines 141-159
CreateMetricsService(p) ==
    /\ pc[p] = "createMetricsService"
    /\ \E err \in BOOLEAN :
        /\ CallOrExit(p, "metrics.CreateMetricsService", err, {}, "mgrStart")
        /\ services' = IF err THEN services ELSE PublishedServices(services)
    /\ UNCHANGED <<osEnv, namespace, consulted>>

\* main() gives the lock up before it enters the run loop.
MgrStartCallReleasing(p) ==
    /\ pc[p] = "mgrStart"
    /\ trace' = [trace EXCEPT ![p] = Append(@, Entry("mgr.Start", "pending"))]
    /\ configMaps' = ReleasedLocks(p)
    /\ Goto(p, "running")
    /\ UNCHANGED <<osEnv, services, namespace, consulted, log, probe, mux>>

\* Line 162: signals.SetupSignalHandler() installs the handler and mgr.Start
\* blocks in the run loop.
MgrStartCall(p) ==
    /\ pc[p] = "mgrStart"
    /\ trace' = [trace EXCEPT ![p] = Append(@, Entry("mgr.Start", "pending"))]
    /\ Goto(p, "running")
    /\ UNCHANGED <<osEnv, configMaps, services, namespace, consulted, log, probe, mux>>

\* Lines 67-161: no handler is installed before line 162, so a SIGINT or
\* SIGTERM has its default effect: the process ends at once, wherever main()
\* stands, also while it is blocked in leader.Become.
DieFromSignal(p) ==
    /\ pc[p] \notin {"running", "exited"}
    /\ \E sig \in TermSignals : Exit(p, SignalStatus(sig))
    /\ UNCHANGED <<osEnv, services, namespace, consulted, trace, log>>

\* The first SIGTERM or SIGINT closes the stop channel.
Signal(p) ==
    /\ pc[p] = "running"
    /\ ~stopClosed[p]
    /\ stopClosed' = [stopClosed EXCEPT ![p] = TRUE]
    /\ UNCHANGED <<osEnv, configMaps, services, pc, exitCode, namespace, consulted,
                   trace, log, probe, mux>>

\* A second signal makes the handler call os.Exit(1) while mgr.Start has not
\* returned.
SecondSignal(p) ==
    /\ pc[p] = "running"
    /\ stopClosed[p]
    /\ Exit(p, 1)
    /\ UNCHANGED <<osEnv, services, namespace, consulted, trace, log>>

\* Lines 162-166: mgr.Start returns nil after the stop channel is closed, or
\* an error; on the error main() exits with 1, otherwise main() returns.
MgrStartReturnZero(p) ==
    /\ pc[p] = "running"
    /\ \E err \in BOOLEAN :
        /\ ~err => stopClosed[p]
        /\ trace' = [trace EXCEPT ![p] = Returned(@, Result(err))]
        /\ IF err
           THEN LogError(p, "manager exited non-zero") /\ Exit(p, 0)
           ELSE UNCHANGED log /\ Exit(p, 0)
    /\ UNCHANGED <<osEnv, services, namespace, consulted>>

MgrStartReturn(p) ==
    /\ pc[p] = "running"
    /\ \E err \in BOOLEAN :
        /\ ~err => stopClosed[p]
        /\ trace' = [trace EXCEPT ![p] = Returned(@, Result(err))]
        /\ IF err
           THEN LogError(p, "manager exited non-zero") /\ Exit(p, 1)
           ELSE UNCHANGED log /\ Exit(p, 0)
    /\ UNCHANGED <<osEnv, services, namespace, consulted>>

\* --------------------------------------------------------------- restart
\* The platform supervisor starts a new instance in place of one that ended.
Restart(p) ==
    /\ pc[p] = "exited"
    /\ pc' = [pc EXCEPT ![p] = "flagParse"]
    /\ exitCode' = [exitCode EXCEPT ![p] = -1]
    /\ namespace' = [namespace EXCEPT ![p] = ""]
    /\ consulted' = [consulted EXCEPT ![p] = FALSE]
    /\ trace' = [trace EXCEPT ![p] = << >>]
    /\ log' = [log EXCEPT ![p] = {}]
    /\ probe' = [probe EXCEPT ![p] = "notStarted"]
    /\ UNCHANGED <<osEnv, configMaps, services, mux, stopClosed>>

\* ------------------------------------------------------------------ Next
Next ==
    \E p \in Procs :
        \/ FlagParse(p)
        \/ ResolveNamespace(p)
        \/ GetConfig(p)
        \/ GoHandleLiveness(p)
        \/ handleLiveness(p)
        \/ LeaderBecomeCall(p)
        \/ LeaderBecomeReturn(p)
        \/ HandleReady(p)
        \/ ManagerNew(p)
        \/ AddToScheme(p)
        \/ AddToManager(p)
        \/ CreateMetricsService(p)
        \/ MgrStartCall(p)
        \/ DieFromSignal(p)
        \/ Signal(p)
        \/ SecondSignal(p)
        \/ MgrStartReturn(p)
        \/ Restart(p)

\* Every environment and command line.
Spec == Init /\ [][Next]_vars

\* The bootstrap after the namespace is resolved.
BootSpec == InitDiscovered /\ [][Next]_vars

\* Every step of the probe goroutine is taken once it can be: the Go
\* scheduler runs a runnable goroutine.
LiveSpec == BootSpec /\ \A p \in Procs : WF_vars(handleLiveness(p))

\* ------------------------------------------------------- derived state
Called(p, fn) == \E i \in 1..Len(trace[p]) : trace[p][i].fn = fn

Succeeded(p, fn) == \E i \in 1..Len(trace[p]) : trace[p][i] = Entry(fn, "ok")

Failed(p, fn) == \E i \in 1..Len(trace[p]) : trace[p][i] = Entry(fn, "err")

LastCall(p) == trace[p][Len(trace[p])]

Alive(p) == pc[p] # "exited"

\* "holding": returned successfully from leader.Become and not yet terminated.
Holding(p) == Succeeded(p, "leader.Become") /\ Alive(p)

\* The manager's lifecycle state, by the position of main().
ManagerState(p) ==
    CASE pc[p] = "addToScheme" -> "Constructed"
      [] pc[p] = "addToManager" -> "SchemeReady"
      [] pc[p] \in {"createMetricsService", "mgrStart"} -> "ControllersReady"
      [] pc[p] = "running" -> "Running"
      [] pc[p] = "exited" ->
            IF Succeeded(p, "mgr.Start") THEN "Stopped"
            ELSE IF Called(p, "manager.New") THEN "Failed"
            ELSE "Unconstructed"
      [] OTHER -> "Unconstructed"

ManagerActive(p) ==
    ManagerState(p) \in {"Constructed", "SchemeReady", "ControllersReady", "Running"}

\* The scopes namespace resolution can give.
Scopes == {v.value : v \in EnvValues} \cup {d.ns : d \in DiscoveryResults}

\* The notices line 93 can log.
WatchedNotices == {WatchedNotice(ns) : ns \in Scopes}

\* Line 93 has run: the resolved scope is logged.
Resolved(p) == log[p] \cap WatchedNotices # {}

\* The process was ended by a signal.
Killed(p) ==
    pc[p] = "exited" /\ \E sig \in TermSignals : exitCode[p] = SignalStatus(sig)

\* The process was ended by flag.Parse.
FlagExit(p) ==
    /\ pc[p] = "exited"
    /\ trace[p] = << >>
    /\ ~Resolved(p)
    /\ \/ osEnv.argv = "rejected" /\ exitCode[p] = FlagErrorStatus
       \/ osEnv.argv = "help" /\ exitCode[p] \in FlagHelpStatuses

PostLeaderSteps ==
    {"manager.New", "apis.AddToScheme", "controller.AddToManager",
     "metrics.CreateMetricsService", "mgr.Start"}

\* ------------------------------------------------------------------ claims

\* C1: among the processes contending for the lock "vault-operator-lock", at
\* most one is holding (returned successfully from leader.Become and not yet
\* terminated), in every reachable state, with instances exiting and starting.
C1_MutualExclusion == Cardinality({p \in Procs : Holding(p)}) <= 1

\* One process holds the lock while another is blocked in leader.Become.
C1_Witness ==
    \E p, q \in Procs : p # q /\ Holding(p) /\ pc[q] = "becomeBlocked"

\* C2: at most one process has a reconciliation manager that is constructed,
\* being registered into, or running.
C2_SingleActiveManager == Cardinality({p \in Procs : ManagerActive(p)}) <= 1

\* One manager runs while another process has gone through a whole run and is
\* back contending for the lock.
C2_Witness ==
    \E p, q \in Procs :
        /\ p # q
        /\ ManagerState(p) = "Running"
        /\ pc[q] = "becomeBlocked"
        /\ services = 1

\* C3: manager.New is invoked only after leader.Become returned without error
\* in that process; when leader.Become returns an error the process ends with
\* status 1 and none of manager.New, apis.AddToScheme, controller.AddToManager,
\* metrics.CreateMetricsService, mgr.Start is invoked.
C3_LeaderBeforeManager ==
    \A p \in Procs :
        /\ \A i \in 1..Len(trace[p]) :
              trace[p][i].fn = "manager.New" =>
                  \E j \in 1..(i - 1) : trace[p][j] = Entry("leader.Become", "ok")
        /\ Failed(p, "leader.Become") =>
              /\ pc[p] = "exited"
              /\ exitCode[p] = 1
              /\ \A fn \in PostLeaderSteps : ~Called(p, fn)

\* leader.Become returned an error while another process held the lock.
C3_Witness ==
    \E p, q \in Procs :
        p # q /\ Failed(p, "leader.Become") /\ pc[p] = "exited" /\ Holding(q)

\* C4: controller.AddToManager is invoked only after apis.AddToScheme returned
\* success for the same manager; when apis.AddToScheme fails,
\* controller.AddToManager is never called and the process exits with 1.
C4_SchemeBeforeControllers ==
    \A p \in Procs :
        /\ \A i \in 1..Len(trace[p]) :
              trace[p][i].fn = "controller.AddToManager" =>
                  \E j \in 1..(i - 1) : trace[p][j] = Entry("apis.AddToScheme", "ok")
        /\ Failed(p, "apis.AddToScheme") =>
              /\ ~Called(p, "controller.AddToManager")
              /\ pc[p] = "exited"
              /\ exitCode[p] = 1

\* apis.AddToScheme failed in one process, and in another the controllers were
\* registered after the scheme.
C4_Witness ==
    \E p, q \in Procs :
        /\ Failed(p, "apis.AddToScheme")
        /\ Succeeded(q, "controller.AddToManager")

\* C5: a step after leadership acquisition that returns an error is the last
\* call of the run and the process has exited with status 1; no step is
\* invoked twice in one run.
C5_FailFastNoRetry ==
    \A p \in Procs :
        /\ \A i \in 1..Len(trace[p]) :
              (trace[p][i].fn \in PostLeaderSteps /\ trace[p][i].res = "err") =>
                  /\ i = Len(trace[p])
                  /\ pc[p] = "exited"
                  /\ exitCode[p] = 1
        /\ \A i, j \in 1..Len(trace[p]) :
              trace[p][i].fn = trace[p][j].fn => i = j

\* The metrics publication failed after every earlier step had succeeded.
C5_Witness ==
    \E p \in Procs :
        /\ Failed(p, "metrics.CreateMetricsService")
        /\ Succeeded(p, "controller.AddToManager")
        /\ pc[p] = "exited"

\* C6 as stated: a process that has terminated has status 0 exactly when
\* mgr.Start was reached and returned without error; a termination caused by a
\* failing call has status 1.
C6_ExitStatusAsStated ==
    \A p \in Procs :
        pc[p] = "exited" =>
            /\ exitCode[p] = 0 <=> Succeeded(p, "mgr.Start")
            /\ (trace[p] # << >> /\ LastCall(p).res = "err") => exitCode[p] = 1

\* C6 amended: a process that has terminated has status 0 exactly when
\* mgr.Start was reached and returned without error, or when flag.Parse ended
\* it on -h before any call was made; a termination caused by a failing call
\* has status 1; every other status is that of flag.Parse or of a signal that
\* ended the process before the run loop.
C6_ExitStatus ==
    \A p \in Procs :
        pc[p] = "exited" =>
            /\ Succeeded(p, "mgr.Start") => exitCode[p] = 0
            /\ exitCode[p] = 0 =>
                  (Succeeded(p, "mgr.Start") \/ (FlagExit(p) /\ osEnv.argv = "help"))
            /\ (trace[p] # << >> /\ LastCall(p).res = "err") => exitCode[p] = 1
            /\ exitCode[p] \notin {0, 1} => (FlagExit(p) \/ Killed(p))

\* flag.Parse ended a process on -h with status 0: mgr.Start was never reached.
C6_Witness ==
    \E p \in Procs :
        /\ pc[p] = "exited"
        /\ exitCode[p] = 0
        /\ osEnv.argv = "help"
        /\ ~Called(p, "mgr.Start")

\* The precedence as first stated: the override counts only when it is
\* present and non-empty.
PrecedenceNonEmpty(lookup, disc) ==
    IF lookup.isSet /\ lookup.value # "" THEN lookup.value
    ELSE IF ~disc.err THEN disc.ns
    ELSE ""

\* The precedence with the override counting whenever it is present.
PrecedencePresent(lookup, disc) ==
    IF lookup.isSet THEN lookup.value
    ELSE IF ~disc.err THEN disc.ns
    ELSE ""

\* C7 as stated: the resolved scope is the OPERATOR_NAMESPACE override when it
\* is present and non-empty (discovery is then not consulted), otherwise the
\* result of discovery when that succeeds, otherwise the empty string.
C7_PrecedenceAsStated ==
    \A p \in Procs :
        Resolved(p) =>
            /\ namespace[p] = PrecedenceNonEmpty(osEnv.lookup, osEnv.discovery)
            /\ (osEnv.lookup.isSet /\ osEnv.lookup.value # "") => ~consulted[p]

\* C7 amended: the resolved scope is the OPERATOR_NAMESPACE override whenever
\* it is present, empty or not (discovery is then not consulted), otherwise the
\* result of discovery when that succeeds, otherwise the empty string.
C7_PrecedenceWhenPresent ==
    \A p \in Procs :
        Resolved(p) =>
            /\ namespace[p] = PrecedencePresent(osEnv.lookup, osEnv.discovery)
            /\ consulted[p] <=> ~osEnv.lookup.isSet

\* The override is present but empty while discovery would name a namespace:
\* the process has resolved the empty scope without asking discovery.
C7_Witness ==
    \E p \in Procs :
        /\ Resolved(p)
        /\ osEnv.lookup = [isSet |-> TRUE, value |-> ""]
        /\ osEnv.discovery = [err |-> FALSE, ns |-> "ops-ns"]
        /\ namespace[p] = ""
        /\ ~consulted[p]

\* C8: namespace resolution never fails: whatever the override and the outcome
\* of discovery, the process gets a scope, logs it and goes on to
\* config.GetConfig; a failed discovery gives the empty scope with the
\* cluster-wide notice logged, and no process exits because of it: a process
\* past line 93 has its scope, and one that ended without a scope was ended by
\* flag.Parse or by a signal.
C8_ResolutionNeverFails ==
    \A p \in Procs :
        /\ Resolved(p) =>
            /\ pc[p] = "getConfig" \/ Called(p, "config.GetConfig") \/ Killed(p)
            /\ WatchedNotice(namespace[p]) \in log[p]
            /\ (consulted[p] /\ osEnv.discovery.err) =>
                  namespace[p] = "" /\ FallbackNotice \in log[p]
            /\ FallbackNotice \in log[p] => (consulted[p] /\ osEnv.discovery.err)
        /\ pc[p] \notin {"flagParse", "resolveNamespace", "exited"} => Resolved(p)
        /\ (pc[p] = "exited" /\ ~Resolved(p)) => (FlagExit(p) \/ Killed(p))

\* Discovery failed and the process went on as far as leader.Become.
C8_Witness ==
    \E p \in Procs :
        /\ consulted[p]
        /\ osEnv.discovery.err
        /\ FallbackNotice \in log[p]
        /\ namespace[p] = ""
        /\ Called(p, "leader.Become")

\* C9: the probe goroutine is started before leader.Become is invoked, and
\* with fair scheduling a process that stays blocked in leader.Become and whose
\* bind does not fail ends up serving the liveness endpoint for good.
C9_LivenessWhileContending ==
    /\ [](\A p \in Procs : (Alive(p) /\ Called(p, "leader.Become")) => probe[p] # "notStarted")
    /\ \A p \in Procs :
          <>[](pc[p] = "becomeBlocked" /\ probe[p] # "bindFailed")
              => <>[](probe[p] = "serving" /\ ServeHTTP(p, RootPath) = 200)

\* A process serves "/" while it is blocked behind the lock's holder.
C9_Witness ==
    \E p, q \in Procs :
        /\ p # q
        /\ Holding(q)
        /\ pc[p] = "becomeBlocked"
        /\ ~Succeeded(p, "leader.Become")
        /\ ServeHTTP(p, RootPath) = 200

\* C10 as stated: a GET of "/ready" is answered with success only after
\* manager.New has succeeded in that process; never while it is blocked in
\* leader.Become or between leader.Become and manager.New.
C10_ReadyOnlyAfterManager ==
    \A p \in Procs :
        ServeHTTP(p, ReadyPath) = 200 => Succeeded(p, "manager.New")

\* The error handleLiveness logs when http.ListenAndServe returns.
BindError == "failed to start health probe: %v\n"

\* C11: a bind failure of the probe listener is logged and ends only the probe
\* goroutine: the process lives on, its main() can still get the lock and
\* reach the run loop, and the exit status of a process that terminates is
\* decided by main()'s own steps (0 after mgr.Start returned nil, 1 after a
\* failing call or a second signal in the run loop) unless flag.Parse or a
\* signal ended the process.
C11_BindFailureNonFatal ==
    \A p \in Procs :
        /\ probe[p] = "bindFailed" => (Alive(p) /\ BindError \in log[p])
        /\ (Alive(p) /\ BindError \in log[p]) => probe[p] = "bindFailed"
        /\ pc[p] = "exited" =>
              \/ FlagExit(p)
              \/ Killed(p)
              \/ /\ exitCode[p] = (IF Succeeded(p, "mgr.Start") THEN 0 ELSE 1)
                 /\ exitCode[p] = 1 =>
                       /\ trace[p] # << >>
                       /\ \/ LastCall(p).res = "err"
                          \/ LastCall(p) = Entry("mgr.Start", "pending")

\* The bind failed, and the same process holds the lock and is in the run loop.
C11_Witness ==
    \E p \in Procs :
        /\ probe[p] = "bindFailed"
        /\ BindError \in log[p]
        /\ Holding(p)
        /\ pc[p] = "running"

\* ------------------------------------------------------- lock hand-over
Blocked(p) == pc[p] = "becomeBlocked"

\* leader.Become returns nil in process p.
BecomeAcquires(p) == LeaderBecomeReturn(p) /\ pc'[p] = "handleReady"

\* leader.Become keeps retrying: a contender that stays blocked while the
\* lock stays free gets it.
HandoverSpec == BootSpec /\ \A p \in Procs : WF_vars(BecomeAcquires(p))

\* leader.Become failed in p with the acquisition error, and main() exited
\* with status 1.
AcquisitionFailed(p) ==
    /\ Failed(p, "leader.Become")
    /\ AcquisitionError \in log[p]
    /\ pc[p] = "exited"
    /\ exitCode[p] = 1

\* A contender blocks while the lock is held: it neither returns success nor
\* fails merely because the lock is held.  It leaves leader.Become only when
\* the cluster cannot be reached (acquisition error) or a signal ends it.
BlockedWhileHeld ==
    [][\A p \in Procs :
          (Blocked(p) /\ ~LockFree(LockName)) =>
              (Blocked(p)' \/ AcquisitionFailed(p)' \/ Killed(p)')]_vars

\* The hand-over is due to p: a holder of the lock has terminated, the lock is
\* free and p is blocked in leader.Become.
HandOverDue(p) ==
    /\ Blocked(p)
    /\ LockFree(LockName)
    /\ \E h \in Procs \ {p} : pc[h] = "exited" /\ Succeeded(h, "leader.Become")

C14_MetricsBetweenControllersAndRun ==
    \A p \in Procs :
        /\ \A i \in 1..Len(trace[p]) :
              /\ trace[p][i].fn = "metrics.CreateMetricsService" =>
                    (i > 1 /\ trace[p][i - 1] = Entry("controller.AddToManager", "ok"))
              /\ trace[p][i].fn = "mgr.Start" =>
                    (i > 1 /\ trace[p][i - 1] = Entry("metrics.CreateMetricsService", "ok"))
        /\ Failed(p, "metrics.CreateMetricsService") =>
              (~Called(p, "mgr.Start") /\ ManagerState(p) = "Failed")

\* One process is in the run loop after a successful publication; another
\* failed to publish and never started its run loop.
C14_Witness ==
    \E p, q \in Procs :
        /\ pc[p] = "running"
        /\ Succeeded(p, "metrics.CreateMetricsService")
        /\ Failed(q, "metrics.CreateMetricsService")
        /\ Succeeded(q, "controller.AddToManager")

\* ------------------------------------------------------- lock lifetime
HoldsRecord(p) == LockRecord(LockName, p) \in configMaps

\* C15: there is no explicit release: from the successful return of
\* leader.Become the process owns the lock record in every state until it
\* terminates, and a record disappears only in a step that terminates its
\* owner.
C15_HeldUntilTermination ==
    /\ [](\A p \in Procs : Holding(p) <=> HoldsRecord(p))
    /\ [][\A p \in Procs :
            (HoldsRecord(p) /\ ~HoldsRecord(p)') => (Alive(p) /\ pc'[p] = "exited")]_vars

\* One process holds the record in its run loop with the stop signal received;
\* another held it before and lost it by terminating.
C15_Witness ==
    \E p, q \in Procs :
        /\ p # q
        /\ pc[p] = "running" /\ stopClosed[p] /\ HoldsRecord(p)
        /\ pc[q] = "exited" /\ Succeeded(q, "leader.Become") /\ ~HoldsRecord(q)

\* ------------------------------------------------------- readiness handler
ReadyRegistered(p) == ReadyPattern \in mux[p]

\* C16: the "/ready" handler is never registered in a process where
\* leader.Become has not returned successfully, and every run in which
\* leader.Become succeeds registers it in its next step (main() leaves that
\* step otherwise only when a signal ends the process), before manager.New is
\* called and whatever the later steps return.
C16_ReadyRegisteredPastLeader ==
    /\ [](\A p \in Procs :
            /\ ReadyRegistered(p) => Holding(p)
            /\ (Holding(p) /\ pc[p] # "handleReady") => ReadyRegistered(p)
            /\ (Alive(p) /\ Called(p, "manager.New")) => ReadyRegistered(p))
    /\ [][\A p \in Procs :
            /\ (~Holding(p) /\ Holding(p)') => (pc'[p] = "handleReady" /\ ~ReadyRegistered(p)')
            /\ (pc[p] = "handleReady" /\ pc'[p] # "handleReady") =>
                  \/ pc'[p] = "managerNew" /\ ReadyRegistered(p)'
                  \/ Killed(p)'
            /\ (ReadyRegistered(p) /\ ~ReadyRegistered(p)') => pc'[p] = "exited"]_vars

\* The handler is registered although manager.New is still to be called.
C16_Witness ==
    \E p \in Procs :
        /\ ReadyRegistered(p)
        /\ pc[p] = "managerNew"
        /\ ~Called(p, "manager.New")

\* ------------------------------------------------------- graceful shutdown
\* The statements of main() that do not block.
MainStep(p) ==
    \/ FlagParse(p)
    \/ ResolveNamespace(p)
    \/ GetConfig(p)
    \/ GoHandleLiveness(p)
    \/ LeaderBecomeCall(p)
    \/ HandleReady(p)
    \/ ManagerNew(p)
    \/ AddToScheme(p)
    \/ AddToManager(p)
    \/ CreateMetricsService(p)
    \/ MgrStartCall(p)

\* mgr.Start returns once the stop channel is closed.
StartReturnsAfterSignal(p) == stopClosed[p] /\ MgrStartReturn(p)

\* main() is never starved, and the run loop winds down once it is told to
\* stop.
ShutdownSpec ==
    BootSpec /\ \A p \in Procs : WF_vars(MainStep(p)) /\ WF_vars(StartReturnsAfterSignal(p))

InRunLoop(p) == pc[p] = "running"

ExitedWith(p, code) == pc[p] = "exited" /\ exitCode[p] = code

\* Before the run loop nothing cancels the bootstrap: unless it stays blocked
\* in leader.Become for good, a starting process reaches the run loop or
\* exits with status 1.
BootstrapRunsToCompletionAsStated ==
    \A p \in Procs :
        []<>(~Blocked(p)) =>
            ((pc[p] = "flagParse") ~> (InRunLoop(p) \/ ExitedWith(p, 1)))

\* Before the run loop only flag.Parse and a signal end the bootstrap early:
\* unless it stays blocked in leader.Become for good, a starting process
\* reaches the run loop, exits with status 1, or is ended by flag.Parse or by
\* a signal.
BootstrapRunsToCompletion ==
    \A p \in Procs :
        []<>(~Blocked(p)) =>
            ((pc[p] = "flagParse") ~>
                (InRunLoop(p) \/ ExitedWith(p, 1) \/ FlagExit(p) \/ Killed(p)))

\* C17 as stated: once the run loop runs, a termination signal makes mgr.Start
\* return and the process eventually terminates with status 0; before the run
\* loop there is no cancellation, so with fair scheduling (and leader.Become
\* returning) every process reaches the run loop or exits with status 1.
C17_ShutdownAsStated ==
    /\ [][\A p \in Procs :
            (InRunLoop(p) /\ stopClosed[p] /\ pc'[p] = "exited") => exitCode'[p] = 0]_vars
    /\ \A p \in Procs : (InRunLoop(p) /\ stopClosed[p]) ~> (pc[p] = "exited")
    /\ [](\A p \in Procs : stopClosed[p] => InRunLoop(p))
    /\ BootstrapRunsToCompletionAsStated

\* C17 amended: once the run loop runs, a termination signal makes the process
\* eventually terminate, with status 0 when mgr.Start returns nil and with
\* status 1 when mgr.Start returns an error or a second signal arrives first;
\* mgr.Start returns nil only after a signal; before the run loop a signal
\* ends the process at once and flag.Parse ends it on a command line it does
\* not accept, so with fair scheduling (and leader.Become returning) every
\* process reaches the run loop, exits with status 1, or is ended by flag.Parse
\* or by a signal.
C17_Shutdown ==
    /\ [][\A p \in Procs :
            (InRunLoop(p) /\ pc'[p] = "exited") =>
                /\ exitCode'[p] = (IF Succeeded(p, "mgr.Start")' THEN 0 ELSE 1)
                /\ Succeeded(p, "mgr.Start")' => stopClosed[p]]_vars
    /\ \A p \in Procs : (InRunLoop(p) /\ stopClosed[p]) ~> (pc[p] = "exited")
    /\ [](\A p \in Procs : stopClosed[p] => InRunLoop(p))
    /\ BootstrapRunsToCompletion

\* After a signal one process stopped with status 0, and another was ended
\* with status 1 by a second signal before mgr.Start returned.
C17_Witness ==
    \E p, q \in Procs :
        /\ ExitedWith(p, 0) /\ Succeeded(p, "mgr.Start")
        /\ ExitedWith(q, 1) /\ LastCall(q) = Entry("mgr.Start", "pending")

\* ------------------------------------------------------- config retrieval
\* C18: config.GetConfig is called after the namespace is resolved and before
\* the probe goroutine is started; when it fails the process exits with status
\* 1 with the probe never started and leader.Become never invoked, so that
\* process neither contends for nor holds the lock and serves no probe.
C18_ConfigBeforeProbeAndLeader ==
    /\ [](\A p \in Procs :
            /\ Resolved(p) =>
                  (pc[p] = "getConfig" \/ Called(p, "config.GetConfig") \/ Killed(p))
            /\ (pc[p] = "getConfig" \/ Called(p, "config.GetConfig")) => Resolved(p)
            /\ (Alive(p) /\ probe[p] # "notStarted") => Succeeded(p, "config.GetConfig")
            /\ Called(p, "leader.Become") => Succeeded(p, "config.GetConfig")
            /\ Failed(p, "config.GetConfig") =>
                  /\ ExitedWith(p, 1)
                  /\ trace[p] = <<Entry("config.GetConfig", "err")>>
                  /\ ~HoldsRecord(p)
                  /\ \A path \in {RootPath, ReadyPath} : ServeHTTP(p, path) = 0)
    /\ [][\A p \in Procs :
            (pc[p] = "getConfig" /\ pc'[p] # "getConfig") =>
                /\ probe[p] = "notStarted"
                /\ WatchedNotice(namespace[p]) \in log[p]
                /\ \/ Failed(p, "config.GetConfig")' /\ probe'[p] = "stopped"
                   \/ Killed(p)' /\ probe'[p] = "stopped"
                   \/ pc'[p] = "goHandleLiveness" /\ probe'[p] = "notStarted"]_vars

\* config.GetConfig failed in one process while another, whose call
\* succeeded, serves its probe and holds the lock.
C18_Witness ==
    \E p, q \in Procs :
        /\ Failed(p, "config.GetConfig") /\ ExitedWith(p, 1)
        /\ Succeeded(q, "config.GetConfig") /\ probe[q] = "serving" /\ Holding(q)

\* ------------------------------------------------------- shared listener
\* The positions of main() at its non-blocking statements.
MainStepPositions ==
    {"flagParse", "resolveNamespace", "getConfig", "goHandleLiveness", "become", "handleReady",
     "managerNew", "addToScheme", "addToManager", "createMetricsService", "mgrStart"}

\* C19: "/" and "/ready" are served by the one listener of the probe
\* goroutine, so "/ready" is answered only while that listener is bound, and
\* then both are; main() never waits for the bind: whether its next statement
\* can run depends on its position alone (and on the lock, for the return of
\* leader.Become), never on the state of the probe goroutine.
C19_SharedListenerUnchecked ==
    \A p \in Procs :
        /\ ServeHTTP(p, ReadyPath) # 0 => probe[p] = "serving"
        /\ ServeHTTP(p, ReadyPath) = ServeHTTP(p, RootPath)
        /\ ENABLED MainStep(p) <=> pc[p] \in MainStepPositions
        /\ ENABLED BecomeAcquires(p) <=> (Blocked(p) /\ LockFree(LockName))

\* "/ready" is registered and main() is in its run loop, yet nothing answers
\* on the port because the bind failed.
C19_Witness ==
    \E p \in Procs :
        /\ ReadyRegistered(p)
        /\ InRunLoop(p)
        /\ probe[p] = "bindFailed"
        /\ ServeHTTP(p, ReadyPath) = 0

====
